---- MODULE Spec2Model ----
(***************************************************************************)
(* A model of tinyrenderer-rs: the TGA image container (src/tgaimage.rs)   *)
(* and the line / triangle rasterizer (src/renderer.rs).                   *)
(*                                                                         *)
(* Byte sequences are 1-based TLA+ sequences; the Rust index i is the      *)
(* TLA+ index i+1.  An image is the record                                 *)
(*   [width, height, bytespp, data]   (struct TGAImage).                   *)
(***************************************************************************)
EXTENDS Integers, Sequences, FiniteSets, TLC

VARIABLES
    width, height, bytespp, data,  \* the TGAImage under test (self)
    file,      \* the bytes of the TGA file on disk
    src,       \* history: the image that write_tga_file wrote into `file`
    latest,    \* history: per pixel, the bytes of the latest in-bounds set
    nsets,     \* the number of set calls made on the image since it was created
    nreads,    \* the number of read_tga_file calls made on it
    op,        \* the name of the last operation
    ret,       \* what the last operation returned
    zbuffer,   \* the z-buffer of the render_model call in progress
    drawn,     \* history: the set of lines or triangles drawn so far
    args,      \* the arguments of the last draw_line or draw_triangle call
    pc         \* render_model's position: "idle", "rendering" (in the loop
               \* over the faces) or "done"

vars == <<width, height, bytespp, data, file, src, latest, nsets, nreads, op, ret,
          zbuffer, drawn, args, pc>>

(***************************************************************************)
(* Bounds of the model.                                                    *)
(***************************************************************************)
MaxW == 2
MaxH == 2
MaxRuns == 2
FlipW == 3
FlipH == 3
MaxSets == 2
MaxReads == 2

(***************************************************************************)
(* Program constants.                                                      *)
(***************************************************************************)
MAX_CHUNK_LENGTH == 128
HeaderSize == 18

Formats == {1, 3, 4}        \* enum Format: Grayscale = 1, RGB = 3, RGBA = 4

Min(a, b) == IF a < b THEN a ELSE b
Max(a, b) == IF a > b THEN a ELSE b
Zeros(n) == [i \in 1..n |-> 0]

(***************************************************************************)
(* TGAColor                                                                *)
(***************************************************************************)
TGAColor_new == [raw |-> <<0, 0, 0, 0>>, bytespp |-> 1]

TGAColor_rgba(r, g, b, a) == [raw |-> <<b, g, r, a>>, bytespp |-> 4]

TGAColor_from_slice(p, bpp) ==
    [raw |-> [i \in 1..4 |-> IF i <= bpp THEN p[i] ELSE 0], bytespp |-> bpp]

None == [some |-> FALSE]
Some(v) == [some |-> TRUE, val |-> v]

(***************************************************************************)
(* TGAImage                                                                *)
(***************************************************************************)
Self == [width |-> width, height |-> height, bytespp |-> bytespp, data |-> data]

SetSelf(img) ==
    /\ width' = img.width
    /\ height' = img.height
    /\ bytespp' = img.bytespp
    /\ data' = img.data

SetSelf0(img) ==
    /\ width = img.width
    /\ height = img.height
    /\ bytespp = img.bytespp
    /\ data = img.data

TGAImage_new(w, h, format) ==
    LET nbytes == w * h * format
    IN  [width |-> w, height |-> h, bytespp |-> format, data |-> Zeros(nbytes)]

OutOfBounds(img, x, y) == x < 0 \/ y < 0 \/ x >= img.width \/ y >= img.height

TGAImage_get(img, x, y) ==
    IF OutOfBounds(img, x, y) THEN None
    ELSE LET idx == (x + y * img.width) * img.bytespp
         IN  Some(TGAColor_from_slice(SubSeq(img.data, idx + 1, idx + img.bytespp),
                                      img.bytespp))

\* Mutant of TGAImage_set: the row stride is the height, not the width
TGAImage_set_HeightStride(img, x, y, c) ==
    IF OutOfBounds(img, x, y) THEN [ok |-> FALSE, img |-> img]
    ELSE LET idx == (x + y * img.height) * img.bytespp
         IN  [ok  |-> TRUE,
              img |-> [img EXCEPT !.data =
                          [i \in 1..Len(img.data) |->
                              IF i > idx /\ i <= idx + img.bytespp
                              THEN c.raw[i - idx] ELSE img.data[i]]]]

\* set returns [ok |-> the bool it returns, img |-> the image afterwards]
TGAImage_set(img, x, y, c) ==
    IF OutOfBounds(img, x, y) THEN [ok |-> FALSE, img |-> img]
    ELSE LET idx == (x + y * img.width) * img.bytespp
         IN  [ok  |-> TRUE,
              img |-> [img EXCEPT !.data =
                          [i \in 1..Len(img.data) |->
                              IF i > idx /\ i <= idx + img.bytespp
                              THEN c.raw[i - idx] ELSE img.data[i]]]]

\* Mutant of Swap: a copy of b onto a
Swap_Copy(d, a, b) == [d EXCEPT ![a + 1] = d[b + 1]]

\* self.data.swap(a, b) on 0-based indices a, b
Swap(d, a, b) == [d EXCEPT ![a + 1] = d[b + 1], ![b + 1] = d[a + 1]]

RECURSIVE SwapBytes(_, _, _, _)
\* for b in 0..n { data.swap(idx1 + b, idx2 + b) }
SwapBytes(d, idx1, idx2, n) ==
    IF n = 0 THEN d
    ELSE Swap(SwapBytes(d, idx1, idx2, n - 1), idx1 + n - 1, idx2 + n - 1)

RECURSIVE FlipHLoop(_, _, _)
\* the loop nest of flip_horizontally, k = i * height + j counting the
\* (i, j) iterations already done
FlipHLoop(img, d, k) ==
    LET half == img.width \div 2
    IN  IF k >= half * img.height THEN d
        ELSE LET i == k \div img.height
                 j == k % img.height
                 idx1 == (i + j * img.width) * img.bytespp
                 idx2 == ((img.width - 1 - i) + j * img.width) * img.bytespp
             IN  FlipHLoop(img, SwapBytes(d, idx1, idx2, img.bytespp), k + 1)

\* returns [ok, img]
TGAImage_flip_horizontally(img) ==
    IF Len(img.data) = 0 THEN [ok |-> FALSE, img |-> img]
    ELSE [ok |-> TRUE, img |-> [img EXCEPT !.data = FlipHLoop(img, img.data, 0)]]

RECURSIVE FlipVLoop(_, _, _)
\* for j in 0..half { line1.swap_with_slice(line2) }
FlipVLoop(img, d, j) ==
    LET bytes_per_line == img.width * img.bytespp
        half == img.height \div 2
    IN  IF j >= half THEN d
        ELSE LET idx1 == j * bytes_per_line
                 idx2 == (img.height - 1 - j) * bytes_per_line
             IN  FlipVLoop(img, SwapBytes(d, idx1, idx2, bytes_per_line), j + 1)

TGAImage_flip_vertically(img) ==
    IF Len(img.data) = 0 THEN [ok |-> FALSE, img |-> img]
    ELSE [ok |-> TRUE, img |-> [img EXCEPT !.data = FlipVLoop(img, img.data, 0)]]

TGAImage_clear(img) == [img EXCEPT !.data = Zeros(Len(img.data))]

(***************************************************************************)
(* scale.  The loops run on the record                                     *)
(*   [tdata, nscanline, oscanline, erry, panic]                            *)
(* panic is set when a slice index is out of range (Rust aborts the call   *)
(* before `self.data = tdata`, so the image keeps its old fields).         *)
(***************************************************************************)
\* d[start .. start + n] = s[from .. from + n]  (0-based, n bytes)
CopyInto(d, start, s, from, n) ==
    [i \in 1..Len(d) |->
        IF i > start /\ i <= start + n THEN s[from + (i - start)] ELSE d[i]]

RECURSIVE ScaleWhileX(_, _, _, _, _, _, _)
\* while errx >= self.width { ... } of one source pixel at byte offset ox
ScaleWhileX(img, w, st, errx, nx, ox, nscanline) ==
    IF st.panic \/ errx < img.width THEN [st |-> st, errx |-> errx, nx |-> nx]
    ELSE LET errx1 == errx - img.width
             nx1 == nx + img.bytespp
             dst == nscanline + nx1
             from == st.oscanline + ox
         IN  IF dst + img.bytespp > Len(st.tdata) \/ from + img.bytespp > Len(img.data)
             THEN [st |-> [st EXCEPT !.panic = TRUE], errx |-> errx1, nx |-> nx1]
             ELSE ScaleWhileX(img, w,
                      [st EXCEPT !.tdata = CopyInto(st.tdata, dst, img.data, from, img.bytespp)],
                      errx1, nx1, ox, nscanline)

RECURSIVE ScaleForX(_, _, _, _, _, _, _)
\* for _i in 0..self.width { ... }, i iterations already done
ScaleForX(img, w, st, i, errx, nx, ox) ==
    IF st.panic \/ i >= img.width THEN st
    ELSE LET ox1 == ox + img.bytespp
             r == ScaleWhileX(img, w, st, errx + w, nx, ox1, st.nscanline)
         IN  ScaleForX(img, w, r.st, i + 1, r.errx, r.nx, ox1)

RECURSIVE ScaleWhileY(_, _, _, _)
\* while erry >= self.height { ... }
ScaleWhileY(img, w, h, st) ==
    IF st.panic \/ st.erry < img.height THEN st
    ELSE LET nlinebytes == w * img.bytespp
             nscanline1 == st.nscanline + nlinebytes
             dest_start == nscanline1 - nlinebytes
             dest_end == nscanline1
         IN  \* split_at_mut(dest_end), then &after[0..nlinebytes]
             IF dest_end > Len(st.tdata) \/ Len(st.tdata) - dest_end < nlinebytes
             THEN [st EXCEPT !.panic = TRUE, !.erry = st.erry - img.height,
                             !.nscanline = nscanline1]
             ELSE ScaleWhileY(img, w, h,
                      [st EXCEPT !.erry = st.erry - img.height,
                                 !.nscanline = nscanline1,
                                 !.tdata = CopyInto(st.tdata, dest_start, st.tdata,
                                                    dest_end, nlinebytes)])

RECURSIVE ScaleForY(_, _, _, _, _)
\* for _j in 0..self.height { ... }, j iterations already done
ScaleForY(img, w, h, st, j) ==
    IF st.panic \/ j >= img.height THEN st
    ELSE LET olinebytes == img.width * img.bytespp
             sx == ScaleForX(img, w, st, 0, img.width - w, -img.bytespp, -img.bytespp)
             sy == IF sx.panic THEN sx
                   ELSE ScaleWhileY(img, w, h,
                            [sx EXCEPT !.erry = sx.erry + h,
                                       !.oscanline = sx.oscanline + olinebytes])
         IN  ScaleForY(img, w, h, sy, j + 1)

\* returns [kind |-> "false" | "true" | "panic", img |-> the image afterwards]
TGAImage_scale(img, w, h) ==
    IF w <= 0 \/ h <= 0 \/ Len(img.data) = 0 THEN [kind |-> "false", img |-> img]
    ELSE LET st0 == [tdata |-> Zeros(w * h * img.bytespp), nscanline |-> 0,
                     oscanline |-> 0, erry |-> 0, panic |-> FALSE]
             st == ScaleForY(img, w, h, st0, 0)
         IN  IF st.panic THEN [kind |-> "panic", img |-> img]
             ELSE [kind |-> "true",
                   img |-> [img EXCEPT !.data = st.tdata, !.width = w, !.height = h]]

(***************************************************************************)
(* The TGA file: an 18-byte packed header, the pixel data, a 26-byte       *)
(* footer.  Multi-byte header fields are little-endian u16.                *)
(***************************************************************************)
U16(n) == n % 65536                       \* `as u16`
U8(n) == n % 256                          \* `as u8`
\* Mutant of LE16: the high byte is dropped
LE16_LowByte(n) == <<U16(n) % 256, 0>>

LE16(n) == <<U16(n) % 256, U16(n) \div 256>>
FromLE16(lo, hi) == lo + 256 * hi

\* struct TGAHeader, #[repr(C, packed)], in field order
HeaderBytes(datatypecode, w, h, bitsperpixel, imagedescriptor) ==
    <<0, 0, datatypecode>> \o <<0, 0>> \o <<0, 0>> \o <<0>>
        \o <<0, 0>> \o <<0, 0>> \o LE16(w) \o LE16(h)
        \o <<U8(bitsperpixel), imagedescriptor>>

\* b"TRUEVISION-XFILE.\0"
Footer ==
    <<0, 0, 0, 0>> \o <<0, 0, 0, 0>> \o
    <<84, 82, 85, 69, 86, 73, 83, 73, 79, 78, 45, 88, 70, 73, 76, 69, 46, 0>>

\* Mutant of SuccEq: only the first byte of the two pixels is compared
SuccEq_FirstByte(img, curbyte) ==
    img.data[curbyte + 1] = img.data[curbyte + img.bytespp + 1]

\* for t in 0..bytespp { if data[curbyte+t] != data[curbyte+t+bytespp] ... }
SuccEq(img, curbyte) ==
    \A t \in 0..(img.bytespp - 1) :
        img.data[curbyte + t + 1] = img.data[curbyte + t + img.bytespp + 1]

\* One iteration of the inner while of unload_rle_data, entered with
\* run_length = r and the flag raw: [brk, run_length, raw] after it
RleStep(img, curpix, r, raw) ==
    LET curbyte == (curpix + r - 1) * img.bytespp
        succ_eq == SuccEq(img, curbyte)
        raw1 == IF r = 1 THEN ~succ_eq ELSE raw
    IN  IF raw1 /\ succ_eq THEN [brk |-> TRUE, run_length |-> r - 1, raw |-> raw1]
        ELSE IF ~raw1 /\ ~succ_eq THEN [brk |-> TRUE, run_length |-> r, raw |-> raw1]
        ELSE [brk |-> FALSE, run_length |-> r + 1, raw |-> raw1]

\* Mutant of RleRun: a run is not cut at MAX_CHUNK_LENGTH pixels
RleRun_NoCap(img, curpix) ==
    LET npixels == img.width * img.height
        limit == npixels - curpix
        raw == IF limit > 1 THEN RleStep(img, curpix, 1, TRUE).raw ELSE TRUE
        breaks == {r \in 1..(limit - 1) : RleStep(img, curpix, r, raw).brk}
    IN  IF breaks = {} THEN [run_length |-> limit, raw |-> raw]
        ELSE LET r == CHOOSE q \in breaks : \A q2 \in breaks : q <= q2
                 st == RleStep(img, curpix, r, raw)
             IN  [run_length |-> st.run_length, raw |-> st.raw]

\* The inner while: it is entered with run_length = 1, each iteration that
\* does not break adds one, and raw is fixed by the first iteration.  So the
\* loop ends at the first r whose iteration breaks, or when the condition
\* curpix + r < npixels && r < MAX_CHUNK_LENGTH fails.  (Stated without
\* recursion: the loop runs up to 127 iterations.)
RleRun(img, curpix) ==
    LET npixels == img.width * img.height
        limit == Min(MAX_CHUNK_LENGTH, npixels - curpix)
        raw == IF limit > 1 THEN RleStep(img, curpix, 1, TRUE).raw ELSE TRUE
        breaks == {r \in 1..(limit - 1) : RleStep(img, curpix, r, raw).brk}
    IN  IF breaks = {} THEN [run_length |-> limit, raw |-> raw]
        ELSE LET r == CHOOSE q \in breaks : \A q2 \in breaks : q <= q2
                 st == RleStep(img, curpix, r, raw)
             IN  [run_length |-> st.run_length, raw |-> st.raw]

\* the chunk that the outer loop writes at curpix: [run_length, raw, bytes]
RleChunk(img, curpix) ==
    LET chunkstart == curpix * img.bytespp
        r == RleRun(img, curpix)
    IN  [run_length |-> r.run_length, raw |-> r.raw,
         bytes |-> IF r.raw
                   THEN <<U8(r.run_length - 1)>> \o
                        SubSeq(img.data, chunkstart + 1,
                               chunkstart + r.run_length * img.bytespp)
                   ELSE <<U8(r.run_length + 127)>> \o
                        SubSeq(img.data, chunkstart + 1, chunkstart + img.bytespp)]

RECURSIVE RleChunks(_, _)
\* the chunks written from curpix on, in order
RleChunks(img, curpix) ==
    IF curpix >= img.width * img.height THEN <<>>
    ELSE LET c == RleChunk(img, curpix)
         IN  <<c>> \o RleChunks(img, curpix + c.run_length)

RECURSIVE ConcatBytes(_, _)
ConcatBytes(chunks, k) ==
    IF k > Len(chunks) THEN <<>> ELSE chunks[k].bytes \o ConcatBytes(chunks, k + 1)

\* the bytes unload_rle_data writes
unload_rle_data(img) == ConcatBytes(RleChunks(img, 0), 1)

\* the bytes write_tga_file writes (file creation and writes assumed to succeed)
write_tga_file(img, rle) ==
    LET datatypecode == IF img.bytespp = 1 THEN (IF rle THEN 11 ELSE 3)
                        ELSE (IF rle THEN 10 ELSE 2)
    IN  HeaderBytes(datatypecode, img.width, img.height, img.bytespp * 8, 32)
            \o (IF rle THEN unload_rle_data(img) ELSE img.data)
            \o Footer

(***************************************************************************)
(* Reading.  `f` is the whole file, `pos` the number of bytes consumed.    *)
(* The loops return [kind |-> "Ok" | "Err" | "panic", data |-> ...]: an    *)
(* Err is read_exact hitting the end of the file, a panic is a slice of    *)
(* self.data out of range.                                                 *)
(***************************************************************************)
RECURSIVE LoadRleLoop(_, _, _, _, _, _)
LoadRleLoop(f, pos, d, bpp, pixelcount, currentpixel) ==
    IF currentpixel >= pixelcount THEN [kind |-> "Ok", data |-> d]
    ELSE IF pos + 1 > Len(f) THEN [kind |-> "Err", data |-> d]
    ELSE LET chunkheader == f[pos + 1]
             currentbyte == currentpixel * bpp
         IN  IF chunkheader < 128
             THEN \* chunklength pixels follow, each read and stored in turn
                  LET chunklength == chunkheader + 1
                      infile == IF bpp = 0 THEN chunklength
                                ELSE (Len(f) - (pos + 1)) \div bpp
                      room == IF bpp = 0 THEN chunklength
                              ELSE (Len(d) - currentbyte) \div bpp
                      n == Min(chunklength, Min(infile, room))
                      d1 == CopyInto(d, currentbyte, f, pos + 1, n * bpp)
                  IN  IF n = chunklength
                      THEN LoadRleLoop(f, pos + 1 + n * bpp, d1, bpp, pixelcount,
                                       currentpixel + n)
                      ELSE IF infile <= room THEN [kind |-> "Err", data |-> d1]
                      ELSE [kind |-> "panic", data |-> d1]
             ELSE \* one pixel follows, stored chunklength times
                  LET chunklength == chunkheader - 127
                      room == IF bpp = 0 THEN chunklength
                              ELSE (Len(d) - currentbyte) \div bpp
                      n == Min(chunklength, room)
                      d1 == [i \in 1..Len(d) |->
                                IF i > currentbyte /\ i <= currentbyte + n * bpp
                                THEN f[pos + 1 + ((i - currentbyte - 1) % bpp) + 1]
                                ELSE d[i]]
                  IN  IF Len(f) - (pos + 1) < bpp THEN [kind |-> "Err", data |-> d]
                      ELSE IF n < chunklength THEN [kind |-> "panic", data |-> d1]
                      ELSE LoadRleLoop(f, pos + 1 + bpp, d1, bpp, pixelcount,
                                       currentpixel + n)

\* load_rle_data on an image whose data is already resized; the file has
\* HeaderSize bytes consumed
load_rle_data(img, f) ==
    LoadRleLoop(f, HeaderSize, img.data, img.bytespp, img.width * img.height, 0)

\* self.data.resize(nbytes, 0)
Resize(d, nbytes) == [i \in 1..nbytes |-> IF i <= Len(d) THEN d[i] ELSE 0]

\* file.read_exact(&mut self.data): on a short file the bytes that are there
\* are stored before the error is returned
ReadExactData(d, f) ==
    LET avail == Len(f) - HeaderSize
    IN  IF avail >= Len(d)
        THEN [kind |-> "Ok", data |-> SubSeq(f, HeaderSize + 1, HeaderSize + Len(d))]
        ELSE [kind |-> "Err", data |-> CopyInto(d, 0, f, HeaderSize, avail)]

\* the descriptor bits tested after a successful load
Bit5Clear(descriptor) == (descriptor \div 32) % 2 = 0        \* & 0x20 == 0
Bit4Set(descriptor) == (descriptor \div 16) % 2 = 1          \* & 0x10 != 0

\* the assignments of lines 105-107
HeaderFields(img, w, h, bitsperpixel) ==
    [img EXCEPT !.width = w, !.height = h, !.bytespp = bitsperpixel \div 8]

\* returns [kind |-> "Ok" | "Err" | "panic", err |-> the error, img |-> self afterwards]
read_tga_file(img, f) ==
    IF Len(f) < HeaderSize
    THEN [kind |-> "Err", err |-> "UnexpectedEof", img |-> img]
    ELSE
    LET datatypecode == f[3]
        imagedescriptor == f[18]
        img1 == HeaderFields(img, FromLE16(f[13], f[14]), FromLE16(f[15], f[16]), f[17])
    IN  IF img1.width <= 0 \/ img1.height <= 0
        THEN [kind |-> "Err", err |-> "Invalid image dimensions", img |-> img1]
        ELSE
        LET nbytes == img1.width * img1.height * img1.bytespp
            img2 == [img1 EXCEPT !.data = Resize(img1.data, nbytes)]
            loaded == IF datatypecode = 2 \/ datatypecode = 3
                      THEN ReadExactData(img2.data, f)
                      ELSE IF datatypecode = 10 \/ datatypecode = 11
                      THEN load_rle_data(img2, f)
                      ELSE [kind |-> "Unknown", data |-> img2.data]
            img3 == [img2 EXCEPT !.data = loaded.data]
            img4 == IF Bit5Clear(imagedescriptor)
                    THEN TGAImage_flip_vertically(img3).img ELSE img3
            img5 == IF Bit4Set(imagedescriptor)
                    THEN TGAImage_flip_horizontally(img4).img ELSE img4
        IN  IF loaded.kind = "Unknown"
            THEN [kind |-> "Err", err |-> "Unknown file format", img |-> img3]
            ELSE IF loaded.kind = "Err"
            THEN [kind |-> "Err", err |-> "UnexpectedEof", img |-> img3]
            ELSE IF loaded.kind = "panic"
            THEN [kind |-> "panic", err |-> "index out of range", img |-> img3]
            ELSE [kind |-> "Ok", err |-> "", img |-> img5]

(***************************************************************************)
(* Return values, as records with a `kind`.                                *)
(***************************************************************************)
RetBool(b) == [kind |-> "bool", ok |-> b]
RetUnit == [kind |-> "unit"]
RetOption(o) == [kind |-> "option", opt |-> o]
RetResult(r) == [kind |-> r.kind, err |-> r.err]
RetPanic == [kind |-> "panic", err |-> "index out of range"]

NoImage == [width |-> 0, height |-> 0, bytespp |-> 0, data |-> <<>>]

(***************************************************************************)
(* Codec specification: an image made of a few runs of pixels is written   *)
(* (raw or RLE) and read back, into itself or into a fresh image.          *)
(*                                                                         *)
(* The pixel buffers the codec is run on: up to MaxRuns segments, each     *)
(* either one pixel value repeated or two values alternating, of a length  *)
(* around the chunk limit.  Pixel value 2 differs from value 1 in its last *)
(* byte only; value 0 is the blank pixel.                                  *)
(***************************************************************************)
PixelOf(id, bpp) ==
    [i \in 1..bpp |-> IF id = 0 THEN 0 ELSE IF i = bpp /\ id = 2 THEN 9 ELSE i]

RunLens == {1, 2, MAX_CHUNK_LENGTH, MAX_CHUNK_LENGTH + 1}

Segs == [kind : {"rep"}, first : {0, 1, 2}, len : RunLens]
            \cup [kind : {"alt"}, first : {1}, len : RunLens]

SegLists == UNION {[1..n -> Segs] : n \in 0..MaxRuns}

\* the id of the k-th pixel (k >= 0) of a segment
SegPixelId(seg, k) ==
    IF seg.kind = "rep" THEN seg.first ELSE IF k % 2 = 0 THEN seg.first ELSE seg.first + 1

SegBytes(seg, bpp) ==
    [i \in 1..(seg.len * bpp) |->
        PixelOf(SegPixelId(seg, (i - 1) \div bpp), bpp)[((i - 1) % bpp) + 1]]

RECURSIVE SegListBytes(_, _, _)
SegListBytes(segs, k, bpp) ==
    IF k > Len(segs) THEN <<>>
    ELSE SegBytes(segs[k], bpp) \o SegListBytes(segs, k + 1, bpp)

\* the image TGAImage::new(n, 1, format) with the segments' pixels set
SegImage(segs, format) ==
    LET d == SegListBytes(segs, 1, format)
    IN  [width |-> Len(d) \div format, height |-> 1, bytespp |-> format, data |-> d]

\* the fresh images a file is read into
Targets == {TGAImage_new(1, 1, 3), TGAImage_new(MaxW, MaxH, 1)}

InitCodec ==
    /\ \E segs \in SegLists, format \in Formats : SetSelf0(SegImage(segs, format))
    /\ file = <<>>
    /\ src = NoImage
    /\ latest = <<>>
    /\ nsets = 0
    /\ nreads = 0
    /\ op = "new"
    /\ ret = RetUnit
    /\ zbuffer = <<>>
    /\ drawn = {}
    /\ args = <<>>
    /\ pc = "idle"

\* self.write_tga_file(filename, rle)
Write(rle) ==
    /\ ret.kind # "panic"
    /\ file' = write_tga_file(Self, rle)
    /\ src' = Self
    /\ op' = "write_tga_file"
    /\ ret' = RetResult([kind |-> "Ok", err |-> ""])
    /\ UNCHANGED <<width, height, bytespp, data, latest, nsets, nreads, zbuffer, drawn, args, pc>>

\* let mut testimage = TGAImage::new(w, h, format)
NewTarget(t) ==
    /\ ret.kind # "panic"
    /\ op = "write_tga_file"
    /\ SetSelf(t)
    /\ op' = "new"
    /\ ret' = RetUnit
    /\ UNCHANGED <<file, src, latest, nsets, nreads, zbuffer, drawn, args, pc>>

\* self.read_tga_file(filename) of the file on disk
Read ==
    /\ ret.kind # "panic"
    /\ Len(file) > 0
    /\ op # "read_tga_file"
    /\ LET r == read_tga_file(Self, file)
       IN  /\ SetSelf(r.img)
           /\ ret' = RetResult(r)
    /\ op' = "read_tga_file"
    /\ UNCHANGED <<file, src, latest, nsets, nreads, zbuffer, drawn, args, pc>>

NextCodec ==
    \/ \E rle \in BOOLEAN : Write(rle)
    \/ \E t \in Targets : NewTarget(t)
    \/ Read

SpecCodec == InitCodec /\ [][NextCodec]_vars

(***************************************************************************)
(* Pixel specification: set and get on one image.                          *)
(***************************************************************************)
\* The colors passed to set: TGAColor::new() and TGAColor::rgba(3, 2, 1, 4)
Colors == {TGAColor_new, TGAColor_rgba(3, 2, 1, 4)}

Pixels(w, h) == (0..(w - 1)) \X (0..(h - 1))

InitImage(W, H) ==
    /\ \E w \in 0..W, h \in 0..H, format \in Formats :
          SetSelf0(TGAImage_new(w, h, format))
    /\ file = <<>>
    /\ src = NoImage
    /\ nsets = 0
    /\ nreads = 0
    /\ op = "new"
    /\ ret = RetUnit
    /\ zbuffer = <<>>
    /\ drawn = {}
    /\ args = <<>>
    /\ pc = "idle"

InitPixel ==
    /\ InitImage(MaxW, MaxH)
    /\ latest = [p \in Pixels(width, height) |-> Zeros(bytespp)]

\* self.set(x, y, &c)
SetCall(x, y, c) ==
    /\ ret.kind # "panic"
    /\ LET r == TGAImage_set(Self, x, y, c)
       IN  /\ SetSelf(r.img)
           /\ ret' = RetBool(r.ok)
    /\ op' = "set"

\* set, with the history of the latest set at each pixel of the image
Set(x, y, c) ==
    /\ SetCall(x, y, c)
    /\ latest' = IF <<x, y>> \in DOMAIN latest
                 THEN [latest EXCEPT ![<<x, y>>] = SubSeq(c.raw, 1, bytespp)]
                 ELSE latest
    /\ UNCHANGED <<file, src, nsets, nreads, zbuffer, drawn, args, pc>>

\* self.get(x, y)
Get(x, y) ==
    /\ ret.kind # "panic"
    /\ ret' = RetOption(TGAImage_get(Self, x, y))
    /\ op' = "get"
    /\ UNCHANGED <<width, height, bytespp, data, file, src, latest, nsets, nreads, zbuffer, drawn, args, pc>>

NextPixel ==
    \/ \E x \in (-1)..MaxW, y \in (-1)..MaxH, c \in Colors : Set(x, y, c)
    \/ \E x \in (-1)..MaxW, y \in (-1)..MaxH : Get(x, y)

SpecPixel == InitPixel /\ [][NextPixel]_vars

(***************************************************************************)
(* Flip specification: an image with a few pixels set is flipped.          *)
(***************************************************************************)
InitFlip == InitImage(FlipW, FlipH) /\ latest = <<>>

CountedSet(x, y, c) ==
    /\ nsets < MaxSets
    /\ SetCall(x, y, c)
    /\ nsets' = nsets + 1
    /\ UNCHANGED <<file, src, latest, nreads, zbuffer, drawn, args, pc>>

\* self.flip_vertically()
FlipVertically ==
    /\ ret.kind # "panic"
    /\ LET r == TGAImage_flip_vertically(Self)
       IN  /\ SetSelf(r.img)
           /\ ret' = RetBool(r.ok)
    /\ op' = "flip_vertically"
    /\ UNCHANGED <<file, src, latest, nsets, nreads, zbuffer, drawn, args, pc>>

\* self.flip_horizontally()
FlipHorizontally ==
    /\ ret.kind # "panic"
    /\ LET r == TGAImage_flip_horizontally(Self)
       IN  /\ SetSelf(r.img)
           /\ ret' = RetBool(r.ok)
    /\ op' = "flip_horizontally"
    /\ UNCHANGED <<file, src, latest, nsets, nreads, zbuffer, drawn, args, pc>>

NextFlip ==
    \/ \E x \in 0..(FlipW - 1), y \in 0..(FlipH - 1), c \in Colors : CountedSet(x, y, c)
    \/ FlipVertically
    \/ FlipHorizontally

SpecFlip == InitFlip /\ [][NextFlip]_vars

(***************************************************************************)
(* Image specification: every operation of the container on a small image, *)
(* reading from a set of files found on disk.                              *)
(***************************************************************************)
\* let image = TGAImage::new(w, h, format)
New(w, h, format) ==
    /\ ret.kind # "panic"
    /\ SetSelf(TGAImage_new(w, h, format))
    /\ latest' = <<>>
    /\ nsets' = 0
    /\ nreads' = 0
    /\ op' = "new"
    /\ ret' = RetUnit
    /\ UNCHANGED <<file, src, zbuffer, drawn, args, pc>>

\* self.clear()
Clear ==
    /\ ret.kind # "panic"
    /\ SetSelf(TGAImage_clear(Self))
    /\ op' = "clear"
    /\ ret' = RetUnit
    /\ UNCHANGED <<file, src, latest, nsets, nreads, zbuffer, drawn, args, pc>>

\* self.scale(w, h)
Scale(w, h) ==
    /\ ret.kind # "panic"
    /\ LET r == TGAImage_scale(Self, w, h)
       IN  /\ SetSelf(r.img)
           /\ ret' = IF r.kind = "panic" THEN RetPanic ELSE RetBool(r.kind = "true")
    /\ op' = "scale"
    /\ UNCHANGED <<file, src, latest, nsets, nreads, zbuffer, drawn, args, pc>>

\* The files on disk: an image with its first pixel set, written raw or
\* RLE, and the same file with another origin descriptor, an image type this
\* reader does not know, or its pixel data cut short.
FileImage(w, h, format) ==
    TGAImage_set(TGAImage_new(w, h, format), 0, 0, TGAColor_rgba(3, 2, 1, 4)).img

FileVariants == {"raw", "rle", "bottom", "mirrored", "badtype", "short", "shortrle"}

FileOf(img, variant) ==
    LET raw == write_tga_file(img, FALSE)
        rle == write_tga_file(img, TRUE)
    IN  CASE variant = "raw" -> raw
          [] variant = "rle" -> rle
          [] variant = "bottom" -> [raw EXCEPT ![18] = 0]
          [] variant = "mirrored" -> [rle EXCEPT ![18] = 48]
          [] variant = "badtype" -> [raw EXCEPT ![3] = 1]
          [] variant = "short" -> SubSeq(raw, 1, Len(raw) - Len(Footer) - 1)
          [] variant = "shortrle" -> SubSeq(rle, 1, Len(rle) - Len(Footer) - 1)

FileSizes == {<<MaxW, MaxH>>, <<1, 1>>, <<0, MaxH>>, <<MaxW, 0>>}

ExternalFiles ==
    {FileOf(FileImage(wh[1], wh[2], format), v) :
        wh \in FileSizes, format \in Formats, v \in FileVariants}

\* self.read_tga_file(filename), the file holding the bytes f
ReadFile(f) ==
    /\ ret.kind # "panic"
    /\ nreads < MaxReads
    /\ LET r == read_tga_file(Self, f)
       IN  /\ SetSelf(r.img)
           /\ ret' = RetResult(r)
    /\ op' = "read_tga_file"
    /\ nreads' = nreads + 1
    /\ UNCHANGED <<file, src, latest, nsets, zbuffer, drawn, args, pc>>

InitImg == InitImage(MaxW, MaxH) /\ latest = <<>>

NextImg ==
    \/ \E w \in 0..MaxW, h \in 0..MaxH, format \in Formats : New(w, h, format)
    \/ \E x \in (-1)..MaxW, y \in (-1)..MaxH, c \in Colors : CountedSet(x, y, c)
    \/ FlipVertically
    \/ FlipHorizontally
    \/ Clear
    \/ \E w \in 0..(MaxW + 1), h \in 0..(MaxH + 1) : Scale(w, h)
    \/ \E f \in ExternalFiles : ReadFile(f)

SpecImage == InitImg /\ [][NextImg]_vars

(***************************************************************************)
(* f32 arithmetic (IEEE 754 binary32, round to nearest, ties to even).     *)
(* A value is NaN, an infinity, or (-1)^s * m * 2^e with m = 0 or          *)
(* 2^23 <= m < 2^24.  The renderer's values stay far from the subnormal    *)
(* and the overflow range, which is not modelled.                          *)
(***************************************************************************)
F32_NAN == [kind |-> "nan", s |-> 0, m |-> 0, e |-> 0]
F32_inf(s) == [kind |-> "inf", s |-> s, m |-> 0, e |-> 0]
F32_zero(s) == [kind |-> "num", s |-> s, m |-> 0, e |-> 0]

\* the number of significant bits of M, 0 <= M < 2^30
BitLen(M) ==
    IF M = 0 THEN 0
    ELSE CHOOSE k \in 1..30 : 2^(k - 1) <= M /\ M < 2^k

\* the f32 nearest to (-1)^s * (M + sticky) * 2^e, where sticky stands for a
\* non-zero remainder below the last bit of M
F32_round(s, M, e, sticky) ==
    IF M = 0 THEN F32_zero(s)
    ELSE LET n == BitLen(M)
         IN  IF n <= 24
             THEN [kind |-> "num", s |-> s, m |-> M * 2^(24 - n), e |-> e - (24 - n)]
             ELSE LET k    == n - 24
                      q    == M \div 2^k
                      r    == M % 2^k
                      half == 2^(k - 1)
                      up   == r > half \/ (r = half /\ (sticky \/ q % 2 = 1))
                      q1   == IF up THEN q + 1 ELSE q
                  IN  IF q1 = 2^24
                      THEN [kind |-> "num", s |-> s, m |-> 2^23, e |-> e + k + 1]
                      ELSE [kind |-> "num", s |-> s, m |-> q1, e |-> e + k]

\* n as f32, for |n| < 2^30
F32_from_i32(n) ==
    IF n < 0 THEN F32_round(1, -n, 0, FALSE) ELSE F32_round(0, n, 0, FALSE)

F32_neg(a) == [a EXCEPT !.s = 1 - a.s]

F32_abs(a) == [a EXCEPT !.s = 0]

F32_add(a, b) ==
    IF a.kind = "nan" \/ b.kind = "nan" THEN F32_NAN
    ELSE IF a.kind = "inf" \/ b.kind = "inf"
    THEN IF a.kind = "inf" /\ b.kind = "inf" /\ a.s # b.s THEN F32_NAN
         ELSE IF a.kind = "inf" THEN a ELSE b
    ELSE IF a.m = 0 /\ b.m = 0 THEN F32_zero(IF a.s = b.s THEN a.s ELSE 0)
    ELSE IF a.m = 0 THEN b
    ELSE IF b.m = 0 THEN a
    ELSE LET aBig   == a.e > b.e \/ (a.e = b.e /\ a.m >= b.m)
             hi     == IF aBig THEN a ELSE b
             lo     == IF aBig THEN b ELSE a
             d      == hi.e - lo.e
             A      == hi.m * 8
             B      == IF d > 27 THEN 0 ELSE (lo.m * 8) \div 2^d
             sticky == IF d > 27 THEN TRUE ELSE (lo.m * 8) % 2^d # 0
         IN  IF hi.s = lo.s
             THEN F32_round(hi.s, A + B, hi.e - 3, sticky)
             ELSE LET M == A - B - (IF sticky THEN 1 ELSE 0)
                  IN  IF M = 0 THEN F32_zero(0)
                      ELSE F32_round(hi.s, M, hi.e - 3, sticky)

F32_sub(a, b) == F32_add(a, F32_neg(b))

F32_mul(a, b) ==
    LET s == (a.s + b.s) % 2
    IN  IF a.kind = "nan" \/ b.kind = "nan" THEN F32_NAN
        ELSE IF a.kind = "inf" \/ b.kind = "inf"
        THEN IF (a.kind = "num" /\ a.m = 0) \/ (b.kind = "num" /\ b.m = 0)
             THEN F32_NAN ELSE F32_inf(s)
        ELSE IF a.m = 0 \/ b.m = 0 THEN F32_zero(s)
        ELSE LET ah == a.m \div 4096
                 al == a.m % 4096
                 bh == b.m \div 4096
                 bl == b.m % 4096
                 \* a.m * b.m = hh * 2^24 + mid * 2^12 + ll
                 hh  == ah * bh
                 mid == ah * bl + al * bh
                 ll  == al * bl
                 t   == (mid % 4096) * 4096 + ll
                 u   == hh + mid \div 4096 + t \div 16777216
                 t24 == t % 16777216
                 \* a.m * b.m = u * 2^24 + t24
                 Hi  == u * 4 + t24 \div 4194304
             IN  F32_round(s, Hi, a.e + b.e + 22, t24 % 4194304 # 0)

F32_div(a, b) ==
    LET s == (a.s + b.s) % 2
    IN  IF a.kind = "nan" \/ b.kind = "nan" THEN F32_NAN
        ELSE IF a.kind = "inf" THEN (IF b.kind = "inf" THEN F32_NAN ELSE F32_inf(s))
        ELSE IF b.kind = "inf" THEN F32_zero(s)
        ELSE IF b.m = 0 THEN (IF a.m = 0 THEN F32_NAN ELSE F32_inf(s))
        ELSE IF a.m = 0 THEN F32_zero(s)
        ELSE LET \* long division, 26 fraction bits
                 q0 == a.m \div b.m
                 r0 == a.m % b.m
                 q1 == (r0 * 64) \div b.m
                 r1 == (r0 * 64) % b.m
                 q2 == (r1 * 64) \div b.m
                 r2 == (r1 * 64) % b.m
                 q3 == (r2 * 64) \div b.m
                 r3 == (r2 * 64) % b.m
                 q4 == (r3 * 64) \div b.m
                 r4 == (r3 * 64) % b.m
                 q5 == (r4 * 4) \div b.m
                 r5 == (r4 * 4) % b.m
                 Q  == ((((q0 * 64 + q1) * 64 + q2) * 64 + q3) * 64 + q4) * 4 + q5
             IN  F32_round(s, Q, a.e - b.e - 26, r5 # 0)

\* a > b
F32_gt(a, b) ==
    /\ a.kind # "nan" /\ b.kind # "nan"
    /\ LET d == F32_sub(a, b)
       IN  d.kind # "nan" /\ d.s = 0 /\ (d.kind = "inf" \/ d.m > 0)

I32_MAX == 2147483647
I32_MIN == -I32_MAX - 1

\* `x as i32`: truncation toward zero, saturating, NaN to 0
F32_as_i32(a) ==
    IF a.kind = "nan" THEN 0
    ELSE IF a.kind = "inf" \/ a.e > 7 THEN (IF a.s = 1 THEN I32_MIN ELSE I32_MAX)
    ELSE LET mag == IF a.e >= 0 THEN a.m * 2^(a.e)
                    ELSE IF a.e < -24 THEN 0
                    ELSE a.m \div 2^(-a.e)
         IN  IF a.s = 1 THEN -mag ELSE mag

\* `x as usize`: as above with negative values to 0; every value of 2^31 and
\* more stands for the same out-of-range index
F32_as_usize(a) == IF a.s = 1 THEN 0 ELSE F32_as_i32(a)

\* `x as u8`: as above, saturating at 0 and 255
F32_as_u8(a) ==
    LET n == F32_as_i32(a) IN IF n < 0 THEN 0 ELSE IF n > 255 THEN 255 ELSE n

F32_ONE  == F32_from_i32(1)
F32_HALF == F32_div(F32_from_i32(1), F32_from_i32(2))

(***************************************************************************)
(* Renderer                                                                *)
(***************************************************************************)
Vec2i_new(x, y) == [x |-> x, y |-> y]

Abs(n) == IF n < 0 THEN -n ELSE n

\* Renderer::new: the renderer's width and height are those of its image
Renderer_new(w, h) == TGAImage_new(w, h, 3)

\* draw_line's endpoints after the two conditional swaps
LineEnds(t0, t1) ==
    LET steep == Abs(t0.x - t1.x) < Abs(t0.y - t1.y)
        a == IF steep
             THEN [x0 |-> t0.y, y0 |-> t0.x, x1 |-> t1.y, y1 |-> t1.x]
             ELSE [x0 |-> t0.x, y0 |-> t0.y, x1 |-> t1.x, y1 |-> t1.y]
        b == IF a.x0 > a.x1
             THEN [x0 |-> a.x1, y0 |-> a.y1, x1 |-> a.x0, y1 |-> a.y0]
             ELSE a
    IN  [x0 |-> b.x0, y0 |-> b.y0, x1 |-> b.x1, y1 |-> b.y1, steep |-> steep]

\* if steep { image.set(y, x, color) } else { image.set(x, y, color) }
Plot(img, steep, x, y, color) ==
    IF steep THEN TGAImage_set(img, y, x, color).img
    ELSE TGAImage_set(img, x, y, color).img

\* y += if y1 > y0 { 1 } else { -1 }
LineStep(ends) == IF ends.y1 > ends.y0 THEN 1 ELSE -1

RECURSIVE Level0Loop(_, _, _, _)
Level0Loop(img, ends, x, color) ==
    IF x > ends.x1 THEN img
    ELSE LET t == F32_div(F32_from_i32(x - ends.x0), F32_from_i32(ends.x1 - ends.x0))
             y == F32_add(F32_from_i32(ends.y0),
                          F32_mul(t, F32_from_i32(ends.y1 - ends.y0)))
         IN  Level0Loop(Plot(img, ends.steep, x, F32_as_i32(y), color), ends, x + 1, color)

RECURSIVE Level1Loop(_, _, _, _, _, _, _)
Level1Loop(img, ends, x, y, error, derror, color) ==
    IF x > ends.x1 THEN img
    ELSE LET img1 == Plot(img, ends.steep, x, y, color)
             e1   == F32_add(error, derror)
         IN  IF F32_gt(e1, F32_HALF)
             THEN Level1Loop(img1, ends, x + 1, y + LineStep(ends),
                             F32_sub(e1, F32_ONE), derror, color)
             ELSE Level1Loop(img1, ends, x + 1, y, e1, derror, color)

RECURSIVE Level2Loop(_, _, _, _, _, _)
Level2Loop(img, ends, x, y, error, color) ==
    IF x > ends.x1 THEN img
    ELSE LET img1 == Plot(img, ends.steep, x, y, color)
             dx   == ends.x1 - ends.x0
             e1   == error + Abs(ends.y1 - ends.y0) * 2
         IN  IF e1 > dx
             THEN Level2Loop(img1, ends, x + 1, y + LineStep(ends), e1 - dx * 2, color)
             ELSE Level2Loop(img1, ends, x + 1, y, e1, color)

OptimizationLevel == {"Level0", "Level1", "Level2"}

\* the image after self.draw_line(t0, t1, color, optimization_level)
draw_line(img, t0, t1, color, optimization_level) ==
    LET ends == LineEnds(t0, t1)
    IN  CASE optimization_level = "Level0" -> Level0Loop(img, ends, ends.x0, color)
          [] optimization_level = "Level1" ->
                Level1Loop(img, ends, ends.x0, ends.y0, F32_zero(0),
                           F32_div(F32_from_i32(ends.y1 - ends.y0),
                                   F32_from_i32(ends.x1 - ends.x0)),
                           color)
          [] optimization_level = "Level2" ->
                Level2Loop(img, ends, ends.x0, ends.y0, 0, color)

(***************************************************************************)
(* Line specification: one line drawn on the canvas of a new renderer, as  *)
(* tests::test_draw_line does, between any two points of a grid that       *)
(* reaches over the canvas's edges.                                        *)
(***************************************************************************)
LineW == 10
LineH == 5
MaxX == 8
MaxY == 5

LineColor == TGAColor_rgba(128, 1, 255, 255)

LinePoints == {Vec2i_new(x, y) : x \in (-1)..MaxX, y \in (-1)..MaxY}

InitLine ==
    /\ SetSelf0(Renderer_new(LineW, LineH))
    /\ file = <<>>
    /\ src = NoImage
    /\ latest = <<>>
    /\ nsets = 0
    /\ nreads = 0
    /\ op = "new"
    /\ ret = RetUnit
    /\ zbuffer = <<>>
    /\ drawn = {}
    /\ args = <<>>
    /\ pc = "idle"

\* renderer.draw_line(t0, t1, c, optimization_level) on the new renderer
DrawLine(t0, t1, level) ==
    /\ drawn = {}
    /\ SetSelf(draw_line(Self, t0, t1, LineColor, level))
    /\ args' = [t0 |-> t0, t1 |-> t1, level |-> level]
    /\ drawn' = {args'}
    /\ op' = "draw_line"
    /\ ret' = RetUnit
    /\ UNCHANGED <<file, src, latest, nsets, nreads, zbuffer, pc>>

NextLine ==
    \E t0 \in LinePoints, t1 \in LinePoints, level \in OptimizationLevel :
        DrawLine(t0, t1, level)

SpecLine == InitLine /\ [][NextLine]_vars

(***************************************************************************)
(* Triangles                                                               *)
(***************************************************************************)
Vec3i_new(x, y, z) == [x |-> x, y |-> y, z |-> z]
Vec2f_new(x, y) == [x |-> x, y |-> y]

\* Vec3<i32>::to_f
Vec3i_to_f(v) == [c \in DOMAIN v |-> F32_from_i32(v[c])]

\* Add, Sub and Mul of Vec2<T> and Vec3<T>, field by field
Vec_add(a, b) == [c \in DOMAIN a |-> F32_add(a[c], b[c])]
Vec_sub(a, b) == [c \in DOMAIN a |-> F32_sub(a[c], b[c])]
Vec_mul(a, k) == [c \in DOMAIN a |-> F32_mul(a[c], k)]

\* a + (b - a) * k
Lerp(a, b, k) == Vec_add(a, Vec_mul(Vec_sub(b, a), k))

\* vec![vec![i32::min_value(); width + 1]; height + 1]
NewZbuffer(w, h) == [r \in 1..(h + 1) |-> [c \in 1..(w + 1) |-> I32_MIN]]

\* Mutant of Degenerate: no triangle is rejected
Degenerate_Never(t0, t1, t2) == FALSE

\* if t0.y == t1.y && t0.y == t2.y
Degenerate(t0, t1, t2) == t0.y = t1.y /\ t0.y = t2.y

\* if a.y > b.y { swap(a, b); swap(uva, uvb) } on the vertices at positions
\* a and b of v = [t |-> <<t0, t1, t2>>, uv |-> <<uv0, uv1, uv2>>]
SwapIfAbove(v, a, b) ==
    IF v.t[a].y > v.t[b].y
    THEN [t  |-> [v.t EXCEPT ![a] = v.t[b], ![b] = v.t[a]],
          uv |-> [v.uv EXCEPT ![a] = v.uv[b], ![b] = v.uv[a]]]
    ELSE v

\* the three conditional swaps that sort the vertices by y, each vertex
\* with its texture coordinate
SortByY(t0, t1, t2, uv0, uv1, uv2) ==
    SwapIfAbove(SwapIfAbove(SwapIfAbove([t |-> <<t0, t1, t2>>, uv |-> <<uv0, uv1, uv2>>],
                                        1, 2), 1, 3), 2, 3)

\* the point at fraction k of the edge from vertex a to vertex b, with its
\* texture coordinate
EdgePoint(v, a, b, k) ==
    [p  |-> Lerp(Vec3i_to_f(v.t[a]), Vec3i_to_f(v.t[b]), k),
     uv |-> Lerp(v.uv[a], v.uv[b], k)]

\* if p_a.x > p_b.x { swap(p_a, p_b); swap(uvp_a, uvp_b) }
OrderEnds(a, b) ==
    IF F32_gt(a.p.x, b.p.x)
    THEN [p_a |-> b.p, p_b |-> a.p, uvp_a |-> b.uv, uvp_b |-> a.uv]
    ELSE [p_a |-> a.p, p_b |-> b.p, uvp_a |-> a.uv, uvp_b |-> b.uv]

\* Mutant of SecondHalf: a flat lower edge is not told apart
SecondHalf_ByRowOnly(v, i) == i > v.t[2].y - v.t[1].y

\* i > t1.y - t0.y || t1.y == t0.y
SecondHalf(v, i) == i > v.t[2].y - v.t[1].y \/ v.t[2].y = v.t[1].y

\* if second_half { t2.y - t1.y } else { t1.y - t0.y }
SegmentHeight(v, i) ==
    IF SecondHalf(v, i) THEN v.t[3].y - v.t[2].y ELSE v.t[2].y - v.t[1].y

\* the two ends of scanline i, left one first, each with its texture
\* coordinate: alpha = i / total_height along the edge t0-t2, and
\* beta = (i - offset) / segment_height along t1-t2 or t0-t1
ScanlineEnds(v, i) ==
    OrderEnds(
        EdgePoint(v, 1, 3, F32_div(F32_from_i32(i), F32_from_i32(v.t[3].y - v.t[1].y))),
        IF SecondHalf(v, i)
        THEN EdgePoint(v, 2, 3,
                 F32_div(F32_from_i32(i - (v.t[2].y - v.t[1].y)),
                         F32_from_i32(SegmentHeight(v, i))))
        ELSE EdgePoint(v, 1, 2,
                 F32_div(F32_from_i32(i), F32_from_i32(SegmentHeight(v, i)))))

\* the fraction of column j between the ends of its scanline
Phi(e, j) ==
    IF F32_as_i32(e.p_b.x) = F32_as_i32(e.p_a.x)
    THEN F32_ONE
    ELSE F32_div(F32_sub(F32_from_i32(j), e.p_a.x), F32_sub(e.p_b.x, e.p_a.x))

\* the point of column j, its texture coordinate, and the integers made of
\* them: the z-buffer index, the pixel and the depth
Cast(p_cur, uvp_cur) ==
    [p_cur |-> p_cur, uvp_cur |-> uvp_cur,
     zx |-> F32_as_usize(p_cur.x), zy |-> F32_as_usize(p_cur.y),
     x |-> F32_as_i32(p_cur.x), y |-> F32_as_i32(p_cur.y), z |-> F32_as_i32(p_cur.z)]

FragmentAt(e, phi) == Cast(Lerp(e.p_a, e.p_b, phi), Lerp(e.uvp_a, e.uvp_b, phi))

Fragment(e, j) == FragmentAt(e, Phi(e, j))

\* texture_image.get((uvp_cur.x.abs() * width as f32) as i32,
\*                   (uvp_cur.y.abs() * height as f32) as i32)
Sample(texture_image, uvp_cur) ==
    TGAImage_get(texture_image,
        F32_as_i32(F32_mul(F32_abs(uvp_cur.x), F32_from_i32(texture_image.width))),
        F32_as_i32(F32_mul(F32_abs(uvp_cur.y), F32_from_i32(texture_image.height))))

\* (r as f32 * intensity) as u8
Scale8(n, intensity) == F32_as_u8(F32_mul(F32_from_i32(n), intensity))

\* the color set at a pixel: the texture's color scaled by the intensity
Shade(color, intensity) ==
    LET c == [k \in 1..3 |-> Scale8(color.raw[k], intensity)]
    IN  TGAColor_rgba(c[3], c[2], c[1], color.raw[4])

\* Mutant of DepthTest: a pixel of equal depth passes too
DepthTest_OrEqual(stored, z) == stored <= z

\* Mutant of DepthTest: every pixel passes
DepthTest_Always(stored, z) == TRUE

\* zbuffer[x][y] < p_cur.z as i32
DepthTest(stored, z) == stored < z

\* after the z-buffer entry was written: the texture's color, or the error,
\* whose message names p_cur
Textured(st, f, c, intensity) ==
    IF ~c.some
    THEN [st EXCEPT !.kind = "Err", !.err = "Texture not found", !.p_cur = f.p_cur]
    ELSE [st EXCEPT !.img = TGAImage_set(st.img, f.x, f.y, Shade(c.val, intensity)).img]

\* The body of the loop over the columns of a scanline, for the fragment f
\* of the column.  st is [kind, err, p_cur, img, zbuffer]: "Ok" while the
\* fill goes on.
PixelStep(st, f, texture_image, intensity) ==
    IF f.zx >= Len(st.zbuffer) \/ f.zy >= Len(st.zbuffer[f.zx + 1])
    THEN [st EXCEPT !.kind = "panic", !.err = "index out of bounds"]
    ELSE IF ~DepthTest(st.zbuffer[f.zx + 1][f.zy + 1], f.z) THEN st
    ELSE Textured([st EXCEPT !.zbuffer[f.zx + 1][f.zy + 1] = f.z], f,
                  Sample(texture_image, f.uvp_cur), intensity)

\* for j in (p_a.x as i32)..=(p_b.x as i32)
RECURSIVE PixelLoop(_, _, _, _, _)
PixelLoop(st, e, j, texture_image, intensity) ==
    IF st.kind # "Ok" \/ j > F32_as_i32(e.p_b.x) THEN st
    ELSE PixelLoop(PixelStep(st, Fragment(e, j), texture_image, intensity), e, j + 1,
                   texture_image, intensity)

\* one scanline, with ends e
Scanline(st, e, texture_image, intensity) ==
    PixelLoop(st, e, F32_as_i32(e.p_a.x), texture_image, intensity)

\* for i in 0..total_height
RECURSIVE ScanLoop(_, _, _, _, _)
ScanLoop(st, v, i, texture_image, intensity) ==
    IF st.kind # "Ok" \/ i >= v.t[3].y - v.t[1].y THEN st
    ELSE ScanLoop(Scanline(st, ScanlineEnds(v, i), texture_image, intensity),
                  v, i + 1, texture_image, intensity)

\* the fill of the sorted triangle v
Fill(st, v, texture_image, intensity) ==
    IF v.t[3].y - v.t[1].y = 0
    THEN [st EXCEPT !.kind = "Err", !.err = "DivisionByZero"]
    ELSE ScanLoop(st, v, 0, texture_image, intensity)

\* self.draw_triangle(t0, t1, t2, uv0, uv1, uv2, texture_image, intensity,
\* &mut zbuffer): what it returns, and the image and z-buffer it leaves
draw_triangle(img, zb, t0, t1, t2, uv0, uv1, uv2, texture_image, intensity) ==
    IF Degenerate(t0, t1, t2)
    THEN [kind |-> "Ok", err |-> "", p_cur |-> <<>>, img |-> img, zbuffer |-> zb]
    ELSE Fill([kind |-> "Ok", err |-> "", p_cur |-> <<>>, img |-> img, zbuffer |-> zb],
              SortByY(t0, t1, t2, uv0, uv1, uv2), texture_image, intensity)

\* The iterations of the two loops of the fill of the sorted triangle v, as
\* [i, j, p]: scanline i, column j, and the pixel p that p_cur is cast to.
VisitOf(i, j, f) == [i |-> i, j |-> j, p |-> <<f.x, f.y>>]

RowVisits(e, i) ==
    {VisitOf(i, j, Fragment(e, j)) : j \in F32_as_i32(e.p_a.x)..F32_as_i32(e.p_b.x)}

FillVisits(v) ==
    UNION {RowVisits(ScanlineEnds(v, i), i) : i \in 0..(v.t[3].y - v.t[1].y - 1)}

\* the iterations of the fill of the triangle tri, none if it is rejected
Visits(tri) ==
    IF Degenerate(tri.t0, tri.t1, tri.t2) THEN {}
    ELSE FillVisits(SortByY(tri.t0, tri.t1, tri.t2, tri.uv0, tri.uv1, tri.uv2))

(***************************************************************************)
(* Triangle specification: one render_model call on a new renderer.  The   *)
(* loop over the faces is taken one face at a time.  What render_model     *)
(* computes for a face before it calls draw_triangle (the screen           *)
(* coordinates, the texture coordinates and an intensity above 0.0) is an  *)
(* input of the step, taken from a family of triangles: on the canvas, off *)
(* its left edge, across its left and right edges, flat, with constant or  *)
(* sloped depth, and with texture coordinates inside and outside the       *)
(* texture.                                                                *)
(***************************************************************************)
CanvasSide == 4
MaxTris == 3

Canvases == {<<CanvasSide, CanvasSide>>, <<CanvasSide + 1, CanvasSide - 1>>}

\* a 2 x 2 RGB texture with four different texels
Texture ==
    LET t0 == TGAImage_new(2, 2, 3)
        t1 == TGAImage_set(t0, 0, 0, TGAColor_rgba(30, 20, 10, 255)).img
        t2 == TGAImage_set(t1, 1, 0, TGAColor_rgba(60, 50, 40, 255)).img
        t3 == TGAImage_set(t2, 0, 1, TGAColor_rgba(90, 80, 70, 255)).img
    IN  TGAImage_set(t3, 1, 1, TGAColor_rgba(120, 110, 100, 255)).img

F32_ZERO == F32_zero(0)

\* depth, texture coordinate and intensity of the triangles of one layer
Layers ==
    { [z |-> -4, uv |-> Vec2f_new(F32_ZERO, F32_ZERO), intensity |-> F32_ONE],
      [z |-> 3,  uv |-> Vec2f_new(F32_HALF, F32_ZERO), intensity |-> F32_ONE],
      [z |-> 5,  uv |-> Vec2f_new(F32_ZERO, F32_HALF), intensity |-> F32_HALF] }

Triangle(a, b, c, uv0, uv1, uv2, intensity) ==
    [t0 |-> a, t1 |-> b, t2 |-> c, uv0 |-> uv0, uv1 |-> uv1, uv2 |-> uv2,
     intensity |-> intensity]

\* a triangle of constant depth and texture coordinate
Layered(xy, l) ==
    Triangle(Vec3i_new(xy[1][1], xy[1][2], l.z), Vec3i_new(xy[2][1], xy[2][2], l.z),
             Vec3i_new(xy[3][1], xy[3][2], l.z), l.uv, l.uv, l.uv, l.intensity)

\* the lower left half of the canvas, a triangle along its left edge, a
\* triangle left of the canvas, and a triangle across the left edge
ShapeA == << <<0, 0>>, <<CanvasSide - 1, 0>>, <<0, CanvasSide - 1>> >>
ShapeB == << <<0, CanvasSide - 1>>, <<CanvasSide - 1, 2>>, <<0, 1>> >>
ShapeOff == << <<-3, 0>>, <<-1, 1>>, <<-3, CanvasSide - 1>> >>
ShapeEdge == << <<-3, 0>>, <<1, 1>>, <<-3, CanvasSide - 1>> >>
\* three vertices in one row
ShapeFlat == << <<0, 1>>, <<2, 1>>, <<1, 1>> >>

UvOut == Vec2f_new(F32_ONE, F32_ZERO)

Tris ==
    {Layered(s, l) : s \in {ShapeA, ShapeB, ShapeOff, ShapeEdge}, l \in Layers}
    \cup {Layered(ShapeFlat, l) : l \in Layers}
    \cup { \* sloped depth
           Triangle(Vec3i_new(0, 0, 0), Vec3i_new(CanvasSide - 1, 0, 4),
                    Vec3i_new(0, CanvasSide - 1, 8),
                    Vec2f_new(F32_ZERO, F32_ZERO), Vec2f_new(F32_HALF, F32_ZERO),
                    Vec2f_new(F32_ZERO, F32_HALF), F32_ONE),
           \* a texture coordinate that leaves the texture at one vertex
           Triangle(Vec3i_new(0, 0, 7), Vec3i_new(CanvasSide - 1, 0, 7),
                    Vec3i_new(0, CanvasSide - 1, 7),
                    Vec2f_new(F32_ZERO, F32_ZERO), UvOut,
                    Vec2f_new(F32_ZERO, F32_ZERO), F32_ONE),
           \* the depth of a layer with the color of no layer
           Triangle(Vec3i_new(0, CanvasSide - 1, 3), Vec3i_new(CanvasSide - 1, 2, 3),
                    Vec3i_new(0, 1, 3),
                    Vec2f_new(F32_HALF, F32_HALF), Vec2f_new(F32_HALF, F32_HALF),
                    Vec2f_new(F32_HALF, F32_HALF), F32_ONE),
           \* across the right edge of the canvas
           Triangle(Vec3i_new(2, 0, 2), Vec3i_new(CanvasSide + 3, 1, 2),
                    Vec3i_new(2, 2, 2),
                    Vec2f_new(F32_ZERO, F32_ZERO), Vec2f_new(F32_ZERO, F32_ZERO),
                    Vec2f_new(F32_ZERO, F32_ZERO), F32_ONE),
           \* flat, off the canvas, sloped depth, texture coordinate outside
           Triangle(Vec3i_new(-2, 0, 1), Vec3i_new(CanvasSide + 3, 0, 9),
                    Vec3i_new(1, 0, -6), UvOut, UvOut, UvOut, F32_HALF) }

InitTri ==
    /\ \E wh \in Canvases : SetSelf0(Renderer_new(wh[1], wh[2]))
    /\ file = <<>>
    /\ src = NoImage
    /\ latest = <<>>
    /\ nsets = 0
    /\ nreads = 0
    /\ op = "new"
    /\ ret = RetUnit
    /\ zbuffer = <<>>
    /\ drawn = {}
    /\ args = <<>>
    /\ pc = "idle"

\* render_model, up to its loop over the faces: the z-buffer is allocated
RenderModelBegin ==
    /\ pc = "idle"
    /\ zbuffer' = NewZbuffer(width, height)
    /\ pc' = "rendering"
    /\ op' = "render_model"
    /\ UNCHANGED <<width, height, bytespp, data, file, src, latest, nsets, nreads,
                   ret, drawn, args>>

\* Mutant of Returned: render_model goes on to the next face after an error
Returned_GoOn(r) ==
    /\ SetSelf(r.img)
    /\ zbuffer' = r.zbuffer
    /\ ret' = RetResult(r)
    /\ pc' = "rendering"

\* draw_triangle has returned r: the image and z-buffer are as it left
\* them, and `?` ends render_model unless r is Ok
Returned(r) ==
    /\ SetSelf(r.img)
    /\ zbuffer' = r.zbuffer
    /\ ret' = RetResult(r)
    /\ pc' = IF r.kind = "Ok" THEN "rendering" ELSE "done"

\* one face of the loop: self.draw_triangle(...)?
DrawFace(tri) ==
    /\ pc = "rendering"
    /\ Cardinality(drawn) < MaxTris
    /\ tri \notin drawn
    /\ Returned(draw_triangle(Self, zbuffer, tri.t0, tri.t1, tri.t2,
                              tri.uv0, tri.uv1, tri.uv2, Texture, tri.intensity))
    /\ args' = tri
    /\ drawn' = drawn \cup {tri}
    /\ op' = "draw_triangle"
    /\ UNCHANGED <<file, src, latest, nsets, nreads>>

\* render_model after its last face: Ok(())
RenderModelEnd ==
    /\ pc = "rendering"
    /\ pc' = "done"
    /\ zbuffer' = <<>>
    /\ op' = "render_model"
    /\ ret' = RetResult([kind |-> "Ok", err |-> ""])
    /\ UNCHANGED <<width, height, bytespp, data, file, src, latest, nsets, nreads,
                   drawn, args>>

NextTri ==
    \/ RenderModelBegin
    \/ \E tri \in Tris : DrawFace(tri)
    \/ RenderModelEnd

SpecTri == InitTri /\ [][NextTri]_vars

(***************************************************************************)
(* Coverage specification: render_model draws one face on a new renderer,  *)
(* square or not.  The face is any triple of canvas pixels, in any order,  *)
(* with one depth and one texture coordinate, inside the texture, at its   *)
(* three vertices.                                                         *)
(***************************************************************************)
CoverSide == 5

CoverCanvases ==
    {<<CoverSide, CoverSide>>, <<CoverSide, CoverSide - 2>>, <<CoverSide - 2, CoverSide>>}

\* the face with screen coordinates a, b, c
OnCanvas(a, b, c) ==
    Triangle(Vec3i_new(a[1], a[2], 1), Vec3i_new(b[1], b[2], 1), Vec3i_new(c[1], c[2], 1),
             Vec2f_new(F32_HALF, F32_ZERO), Vec2f_new(F32_HALF, F32_ZERO),
             Vec2f_new(F32_HALF, F32_ZERO), F32_ONE)

InitCover ==
    /\ \E wh \in CoverCanvases : SetSelf0(Renderer_new(wh[1], wh[2]))
    /\ file = <<>>
    /\ src = NoImage
    /\ latest = <<>>
    /\ nsets = 0
    /\ nreads = 0
    /\ op = "new"
    /\ ret = RetUnit
    /\ zbuffer = <<>>
    /\ drawn = {}
    /\ args = <<>>
    /\ pc = "idle"

\* the only face of the model
CoverFace(a, b, c) ==
    /\ drawn = {}
    /\ {a, b, c} \subseteq Pixels(width, height)
    /\ DrawFace(OnCanvas(a, b, c))

NextCover ==
    \/ RenderModelBegin
    \/ \E a, b, c \in Pixels(CoverSide, CoverSide) : CoverFace(a, b, c)
    \/ RenderModelEnd

SpecCover == InitCover /\ [][NextCover]_vars

(***************************************************************************)
(* Properties                                                              *)
(***************************************************************************)
\* the bytes of pixel p = <<x, y>> of an image
PixelBytes(img, p) ==
    LET idx == (p[1] + p[2] * img.width) * img.bytespp
    IN  SubSeq(img.data, idx + 1, idx + img.bytespp)

SelfNext == [width |-> width', height |-> height', bytespp |-> bytespp', data |-> data']

\* C1: RLE round trip.  For the pixel buffer of every image of the codec
\* specification (runs of one pixel, of exactly 128 and of more than 128
\* equal pixels, raw runs up to and over 128 pixels, and their boundaries),
\* load_rle_data run on the bytes unload_rle_data emits, into a blank buffer
\* of the same size, succeeds and yields the buffer byte for byte.
RleRoundTrip ==
    Len(data) = width * height * bytespp =>
        LoadRleLoop(unload_rle_data(Self), 0, Zeros(Len(data)), bytespp,
                    width * height, 0)
            = [kind |-> "Ok", data |-> data]

\* C1 witness: an RLE file was read back, and its image encodes to a raw
\* chunk of 128 pixels, a packet of 128 pixels and a chunk of one pixel
RleRoundTripWitness ==
    /\ op = "read_tga_file" /\ ret.kind = "Ok" /\ file[3] = 10
    /\ Self = src
    /\ LET cs == RleChunks(src, 0)
       IN  \E i, j, k \in 1..Len(cs) :
              /\ cs[i].raw /\ cs[i].run_length = MAX_CHUNK_LENGTH
              /\ ~cs[j].raw /\ cs[j].run_length = MAX_CHUNK_LENGTH
              /\ cs[k].run_length = 1

\* the claim covers the images a TGA header can describe
Describable(img) ==
    /\ img.width \in 1..65535
    /\ img.height \in 1..65535
    /\ Len(img.data) = img.width * img.height * img.bytespp

\* C2 (amended): for an image I with 1 <= width, height <= 65535, the file
\* written with RLE and the file written without both read back, into any
\* image, as I's width, height, bytespp and pixel buffer.
SaveLoadRoundTrip ==
    (op = "read_tga_file" /\ Describable(src)) =>
        /\ ret.kind = "Ok"
        /\ Self = src
        /\ \A t \in Targets :
              /\ read_tga_file(t, write_tga_file(src, TRUE)).img = src
              /\ read_tga_file(t, write_tga_file(src, FALSE)).img = src

\* C2 witness: an image wider than 255 pixels was written with RLE and read
\* back into a fresh image
SaveLoadWitness ==
    /\ op = "read_tga_file" /\ ret.kind = "Ok" /\ file[3] = 10
    /\ src.width > 255
    /\ Self = src

\* C2 as claimed: for any image, what is read back is the image written
SaveLoadRoundTripAnyImage ==
    op = "read_tga_file" => Self = src

InBounds(x, y) == 0 <= x /\ x < width /\ 0 <= y /\ y < height

SetEffect(x, y, c) ==
    /\ ret' = RetBool(InBounds(x, y))
    /\ width' = width /\ height' = height /\ bytespp' = bytespp
    /\ Len(data') = Len(data)
    /\ \A p \in Pixels(width, height) :
          PixelBytes(SelfNext, p) =
              IF p = <<x, y>> THEN SubSeq(c.raw, 1, bytespp) ELSE PixelBytes(Self, p)

GetEffect(x, y) ==
    /\ ret' = RetOption(
                 IF InBounds(x, y)
                 THEN Some([raw |-> latest[<<x, y>>] \o Zeros(4 - bytespp),
                            bytespp |-> bytespp])
                 ELSE None)
    /\ UNCHANGED <<width, height, bytespp, data>>

\* C3: set(x, y, c) returns true and changes exactly the bytes of pixel
\* (x, y), to the first bytespp bytes of c.raw, when (x, y) is in bounds,
\* and otherwise returns false and changes nothing; get(x, y) returns None
\* exactly when (x, y) is out of bounds and otherwise the bytes of the latest
\* in-bounds set at (x, y), zeros if there was none.
PixelMap ==
    [][ /\ \A x \in (-1)..MaxW, y \in (-1)..MaxH, c \in Colors :
              Set(x, y, c) => SetEffect(x, y, c)
        /\ \A x \in (-1)..MaxW, y \in (-1)..MaxH :
              Get(x, y) => GetEffect(x, y) ]_vars

\* C3 witness: get returned the color set at the last pixel of the largest
\* RGB image, whose first pixel is still blank
PixelMapWitness ==
    /\ op = "get" /\ width = MaxW /\ height = MaxH /\ bytespp = 3
    /\ ret = RetOption(Some([raw |-> <<1, 2, 3, 0>>, bytespp |-> 3]))
    /\ PixelBytes(Self, <<MaxW - 1, MaxH - 1>>) = <<1, 2, 3>>
    /\ PixelBytes(Self, <<0, 0>>) = <<0, 0, 0>>

\* C4: flipping twice, vertically or horizontally, gives the image back; one
\* flip_vertically moves pixel (x, y) to (x, height-1-y), one
\* flip_horizontally moves it to (width-1-x, y).
FlipTwiceIdentity ==
    LET v == TGAImage_flip_vertically(Self).img
        h == TGAImage_flip_horizontally(Self).img
    IN  /\ TGAImage_flip_vertically(v).img = Self
        /\ TGAImage_flip_horizontally(h).img = Self
        /\ v.width = width /\ v.height = height /\ Len(v.data) = Len(data)
        /\ h.width = width /\ h.height = height /\ Len(h.data) = Len(data)
        /\ \A p \in Pixels(width, height) :
              /\ PixelBytes(v, <<p[1], height - 1 - p[2]>>) = PixelBytes(Self, p)
              /\ PixelBytes(h, <<width - 1 - p[1], p[2]>>) = PixelBytes(Self, p)

\* C4 witness: an image of the largest size was flipped vertically and now
\* holds a set pixel in its last row and another elsewhere
FlipWitness ==
    /\ op = "flip_vertically" /\ ret = RetBool(TRUE)
    /\ width = FlipW /\ height = FlipH /\ bytespp = 3
    /\ PixelBytes(Self, <<0, FlipH - 1>>) = <<1, 2, 3>>
    /\ PixelBytes(Self, <<1, 0>>) = <<1, 2, 3>>

Monotone(f, n) == \A i, j \in 0..(n - 1) : i <= j => f[i] <= f[j]

ScaleEffect(w, h) ==
    /\ ret' = RetBool(TRUE)
    /\ width' = w /\ height' = h /\ bytespp' = bytespp
    /\ Len(data') = w * h * bytespp
    /\ \E fx \in [0..(w - 1) -> 0..(width - 1)], fy \in [0..(h - 1) -> 0..(height - 1)] :
          /\ Monotone(fx, w) /\ Monotone(fy, h)
          /\ \A p \in Pixels(w, h) :
                PixelBytes(SelfNext, p) = PixelBytes(Self, <<fx[p[1]], fy[p[2]]>>)
    /\ (w = width /\ h = height) => data' = data

\* C5 as claimed: on a non-empty image, scale(w, h) with w, h > 0 returns
\* true and leaves a w x h image whose pixel (i, j) is the source pixel
\* (fx[i], fy[j]) for non-decreasing fx and fy; scaling to the current size
\* changes nothing.
ScaleCompletes ==
    [][ \A w \in 1..(MaxW + 1), h \in 1..(MaxH + 1) :
            (Scale(w, h) /\ Len(data) > 0 /\ Len(data) = width * height * bytespp)
                => ScaleEffect(w, h) ]_vars

\* C6 as claimed: the buffer length is always width * height * bytespp
BufferLength == Len(data) = width * height * bytespp

FormatErrors == {"Unknown file format", "Invalid image dimensions"}

\* C7 as claimed: a read that fails with a format error leaves the image as
\* it was
FormatErrorKeepsImage ==
    [][ (op' = "read_tga_file" /\ ret'.kind = "Err" /\ ret'.err \in FormatErrors)
            => UNCHANGED <<width, height, bytespp, data>> ]_vars

\* the pixels of the canvas that are not blank
Touched(img) == {p \in Pixels(img.width, img.height) : PixelBytes(img, p) # Zeros(img.bytespp)}

\* C8 as claimed: for distinct endpoints, the line drawn on the blank canvas
\* by one strategy sets the pixels the other two strategies set
LineStrategiesAgree ==
    (op = "draw_line" /\ args.t0 # args.t1) =>
        \A level \in OptimizationLevel :
            Touched(draw_line(Renderer_new(width, height), args.t0, args.t1,
                              LineColor, level))
                = Touched(Self)

\* what a triangle draws alone, on a blank canvas with a new z-buffer
Alone(tri) ==
    draw_triangle(Renderer_new(width, height), NewZbuffer(width, height),
                  tri.t0, tri.t1, tri.t2, tri.uv0, tri.uv1, tri.uv2, Texture,
                  tri.intensity)

Covers(tri, p) == PixelBytes(Alone(tri).img, p) # Zeros(3)

ConstantDepth(tri) == tri.t0.z = tri.t1.z /\ tri.t1.z = tri.t2.z

\* two triangles overlap when some pixel is covered by both
Overlap(a, b) == \E p \in Pixels(width, height) : Covers(a, p) /\ Covers(b, p)

\* C9 as claimed: after triangles of pairwise distinct depths, each
\* overlapping the others, were drawn into one z-buffer, every touched pixel
\* has the color of the triangle of largest depth among those that cover it
NearestWins ==
    ( /\ pc = "rendering"
      /\ \A a \in drawn : ConstantDepth(a)
      /\ \A a, b \in drawn : a # b => a.t0.z # b.t0.z
      /\ \A a \in drawn : Alone(a).kind = "Ok"
      /\ \A a, b \in drawn : a # b => Overlap(a, b) )
    => \A p \in Touched(Self) :
          \E win \in drawn :
              /\ Covers(win, p)
              /\ \A u \in drawn : Covers(u, p) => u.t0.z <= win.t0.z
              /\ PixelBytes(Self, p) = PixelBytes(Alone(win).img, p)

\* C10: draw_triangle with three vertices of the same y, whatever their x,
\* depth and texture coordinates, returns Ok, writes no pixel, changes no
\* z-buffer entry and does not return DivisionByZero.
DegenerateRejected ==
    [][ \A tri \in Tris :
            (tri.t0.y = tri.t1.y /\ tri.t0.y = tri.t2.y /\ DrawFace(tri)) =>
                /\ ret' = RetResult([kind |-> "Ok", err |-> ""])
                /\ UNCHANGED <<width, height, bytespp, data, zbuffer>>
                /\ pc' = "rendering" ]_vars

\* C10 witness: after a triangle was drawn, a flat triangle that reaches off
\* the canvas, with sloped depth and texture coordinates outside the
\* texture, was drawn and returned Ok
DegenerateWitness ==
    /\ op = "draw_triangle" /\ ret.kind = "Ok"
    /\ args.t0.y = args.t1.y /\ args.t0.y = args.t2.y
    /\ args.t0.x < 0 /\ args.t1.x > width
    /\ args.t0.z # args.t1.z
    /\ args.uv0 = UvOut
    /\ Touched(Self) # {}
    /\ Cardinality(drawn) > 1

\* what the step of render_model that has drawn args' got from draw_triangle
Drew == draw_triangle(Self, zbuffer, args'.t0, args'.t1, args'.t2,
                      args'.uv0, args'.uv1, args'.uv2, Texture, args'.intensity)

\* the pixel of the point p_cur
PixelAt(p_cur) == <<F32_as_i32(p_cur.x), F32_as_i32(p_cur.y)>>

TextureErrorAt(r) ==
    /\ ret' = [kind |-> "Err", err |-> "Texture not found"]
    /\ PixelAt(r.p_cur) \in Pixels(width, height) =>
           PixelBytes(SelfNext, PixelAt(r.p_cur)) = PixelBytes(Self, PixelAt(r.p_cur))
    /\ pc' = "done"

\* C11: when a pixel that passes the depth test samples the texture outside
\* its bounds, draw_triangle returns the error "Texture not found" and has
\* not written that pixel, and render_model returns the error at once: no
\* later face is drawn, and nothing is drawn after render_model returned.
TextureErrorFatal ==
    [][ /\ pc # "done"
        /\ (op' = "draw_triangle" /\ ret'.kind = "Err") => TextureErrorAt(Drew) ]_vars

\* C11 witness: the third face sampled outside the texture at pixel (3, 0)
\* after it had written pixels, and render_model has returned the error
TextureErrorWitness ==
    /\ pc = "done" /\ op = "draw_triangle"
    /\ ret = [kind |-> "Err", err |-> "Texture not found"]
    /\ Cardinality(drawn) = 3
    /\ args.uv1 = UvOut /\ args.t1.x = CanvasSide - 1
    /\ PixelBytes(Self, <<CanvasSide - 1, 0>>) # Zeros(3)
    /\ PixelBytes(Self, <<0, 0>>) = PixelBytes(Alone(args).img, <<0, 0>>)

\* every vertex of the triangle is left of the canvas
LeftOfCanvas(tri) == tri.t0.x < 0 /\ tri.t1.x < 0 /\ tri.t2.x < 0

\* some vertex of the triangle is outside the canvas
OffCanvas(tri) ==
    \E t \in {tri.t0, tri.t1, tri.t2} : <<t.x, t.y>> \notin Pixels(width, height)

\* C12 as claimed: a triangle with vertices outside the canvas never makes
\* draw_triangle fail on an index, and the pixels outside the canvas are
\* skipped: a triangle wholly left of the canvas changes nothing.  Checked on
\* the square canvas.
OffCanvasRoutine ==
    [][ (op' = "draw_triangle" /\ width = height /\ OffCanvas(args')) =>
            /\ ret'.kind # "panic"
            /\ LeftOfCanvas(args') => UNCHANGED <<data, zbuffer>> ]_vars

\* pixels next to each other, diagonals included
Adjacent(p, q) == p # q /\ Abs(p[1] - q[1]) <= 1 /\ Abs(p[2] - q[2]) <= 1

\* the pixels of S reached from those of R in at most n steps
RECURSIVE Reach(_, _, _)
Reach(R, S, n) ==
    IF n = 0 THEN R
    ELSE Reach(R \cup {p \in S : \E q \in R : Adjacent(p, q)}, S, n - 1)

Connected(S) == \A p \in S : Reach({p}, S, Cardinality(S)) = S

\* the smallest rectangle that holds the three vertices
BoundingBox(tri) ==
    LET xs == {tri.t0.x, tri.t1.x, tri.t2.x}
        ys == {tri.t0.y, tri.t1.y, tri.t2.y}
    IN  {p \in Pixels(width, height) :
            /\ \E a, b \in xs : a <= p[1] /\ p[1] <= b
            /\ \E a, b \in ys : a <= p[2] /\ p[2] <= b}

\* twice the signed area of the triangle
Area2(tri) ==
    (tri.t1.x - tri.t0.x) * (tri.t2.y - tri.t0.y)
        - (tri.t2.x - tri.t0.x) * (tri.t1.y - tri.t0.y)

\* C13 as claimed: a triangle with three vertices on the canvas, not on one
\* line, drawn with in-range texture samples, writes a non-empty, connected
\* set of pixels inside its bounding box.  Checked on the square canvas.
TriangleCoverage ==
    (op = "draw_triangle" /\ width = height /\ Area2(args) # 0) =>
        /\ ret.kind = "Ok"
        /\ Touched(Self) # {}
        /\ Touched(Self) \subseteq BoundingBox(args)
        /\ Connected(Touched(Self))

\* C14: every z-buffer entry starts at the minimum i32; while render_model
\* runs only draw_triangle changes the z-buffer, and it never lowers an
\* entry: an entry changes only to a depth strictly greater than the one it
\* held.
ZbufferMonotonic ==
    [][ /\ (pc = "idle" /\ pc' = "rendering") =>
               \A r \in DOMAIN zbuffer' : \A c \in DOMAIN zbuffer'[r] :
                   zbuffer'[r][c] = I32_MIN
        /\ (pc = "rendering" /\ pc' = "rendering" /\ op' # "draw_triangle") =>
               zbuffer' = zbuffer
        /\ (pc = "rendering" /\ op' = "draw_triangle") =>
               /\ DOMAIN zbuffer' = DOMAIN zbuffer
               /\ \A r \in DOMAIN zbuffer :
                      /\ DOMAIN zbuffer'[r] = DOMAIN zbuffer[r]
                      /\ \A c \in DOMAIN zbuffer[r] : zbuffer'[r][c] >= zbuffer[r][c] ]_vars

\* C14 witness: the third face, of depth -4, was drawn after a face of depth
\* 5 and one of depth 3 that cover pixel (1, 1), whose entry still holds 5
\* while another entry was raised to -4
ZbufferMonotonicWitness ==
    /\ pc = "rendering" /\ op = "draw_triangle" /\ Cardinality(drawn) = 3
    /\ ConstantDepth(args) /\ args.t0.z = -4
    /\ \E u \in drawn : ConstantDepth(u) /\ u.t0.z = 3 /\ Covers(u, <<1, 1>>)
    /\ zbuffer[2][2] = 5
    /\ \E r \in DOMAIN zbuffer : \E c \in DOMAIN zbuffer[r] : zbuffer[r][c] = -4

\* the z-buffer entry of the canvas pixel p
Stored(p) == zbuffer[p[1] + 1][p[2] + 1]

\* C15 (amended): a pixel whose stored depth equals the depth of the
\* triangle being drawn is left as it is: among triangles of equal depth
\* the color of the one drawn first stays.
FirstWriteWins ==
    [][ (pc = "rendering" /\ op' = "draw_triangle" /\ ConstantDepth(args')) =>
            \A p \in Pixels(width, height) :
                (p[1] + 1 \in DOMAIN zbuffer /\ Stored(p) = args'.t0.z) =>
                    PixelBytes(SelfNext, p) = PixelBytes(Self, p) ]_vars

\* C15 witness: the second of two triangles of depth 3 and different colors
\* was drawn; pixel (0, 1), covered by both, has the color of the first
FirstWriteWinsWitness ==
    /\ pc = "rendering" /\ op = "draw_triangle" /\ Cardinality(drawn) = 2
    /\ \A u \in drawn : ConstantDepth(u) /\ u.t0.z = 3 /\ Covers(u, <<0, 1>>)
    /\ PixelBytes(Self, <<0, 1>>) # PixelBytes(Alone(args).img, <<0, 1>>)
    /\ \E u \in drawn : PixelBytes(Self, <<0, 1>>) = PixelBytes(Alone(u).img, <<0, 1>>)

\* C15 as claimed: a pixel covered by the triangle being drawn and by a
\* triangle of the same depth drawn before, whose stored depth is that depth,
\* gets the color of the triangle being drawn, the one drawn last
LastWriteWins ==
    [][ (pc = "rendering" /\ op' = "draw_triangle" /\ ConstantDepth(args')
            /\ ret'.kind = "Ok") =>
            \A p \in Pixels(width, height) :
                (p[1] + 1 \in DOMAIN zbuffer /\ Stored(p) = args'.t0.z
                    /\ Covers(args', p)
                    /\ \E u \in drawn : /\ ConstantDepth(u) /\ u.t0.z = args'.t0.z
                                         /\ Covers(u, p)) =>
                    PixelBytes(SelfNext, p) = PixelBytes(Alone(args').img, p) ]_vars

\* twice the signed area of the triangle a, b, p
Cross(a, b, p) == (b.x - a.x) * (p[2] - a.y) - (p[1] - a.x) * (b.y - a.y)

Sign(n) == IF n > 0 THEN 1 ELSE IF n < 0 THEN -1 ELSE 0

\* p lies strictly inside the triangle
StrictlyInside(tri, p) ==
    /\ Area2(tri) # 0
    /\ Sign(Cross(tri.t0, tri.t1, p)) = Sign(Area2(tri))
    /\ Sign(Cross(tri.t1, tri.t2, p)) = Sign(Area2(tri))
    /\ Sign(Cross(tri.t2, tri.t0, p)) = Sign(Area2(tri))

\* p lies on the edge from a to b
OnEdge(a, b, p) ==
    /\ Cross(a, b, p) = 0
    /\ Min(a.x, b.x) <= p[1] /\ p[1] <= Max(a.x, b.x)
    /\ Min(a.y, b.y) <= p[2] /\ p[2] <= Max(a.y, b.y)

\* how many iterations of the fill of tri are cast to pixel p
VisitCount(tri, p) == Cardinality({v \in Visits(tri) : v.p = p})

\* the triangle that shares the edge t0-t1 of tri and has d as third vertex
Neighbour(tri, d) == [tri EXCEPT !.t2 = Vec3i_new(d[1], d[2], tri.t2.z)]

\* d lies on the other side of the edge t0-t1 of tri
Opposite(tri, d) == Sign(Cross(tri.t0, tri.t1, d)) = -Sign(Area2(tri))

\* C16 as claimed: the fill of a triangle visits every pixel strictly inside
\* it exactly once, and of two triangles that share an edge at most one
\* visits a pixel that lies on the shared edge.  Checked on the square canvas.
FillConvention ==
    (op = "draw_triangle" /\ width = height /\ Area2(args) # 0) =>
        /\ \A p \in Pixels(width, height) :
               StrictlyInside(args, p) => VisitCount(args, p) = 1
        /\ \A d \in Pixels(width, height) : Opposite(args, d) =>
               \A p \in Pixels(width, height) : OnEdge(args.t0, args.t1, p) =>
                   ~(VisitCount(args, p) > 0 /\ VisitCount(Neighbour(args, d), p) > 0)

\* the number of pixels in the first k runs
RECURSIVE RunSum(_, _)
RunSum(cs, k) == IF k = 0 THEN 0 ELSE RunSum(cs, k - 1) + cs[k].run_length

\* the bytes of the pixels first..(first + n - 1) of the buffer
PixelRun(img, first, n) ==
    SubSeq(img.data, first * img.bytespp + 1, (first + n) * img.bytespp)

\* the run c, which starts at pixel first of img, is framed as a raw run or
\* as a packet of equal pixels
Framed(img, c, first) ==
    /\ 1 <= c.run_length /\ c.run_length <= 128
    /\ c.raw =>
          /\ c.bytes[1] = c.run_length - 1 /\ c.bytes[1] < 128
          /\ Tail(c.bytes) = PixelRun(img, first, c.run_length)
    /\ ~c.raw =>
          /\ c.bytes[1] = c.run_length + 127 /\ c.bytes[1] >= 128 /\ c.bytes[1] <= 255
          /\ Len(c.bytes) = 1 + img.bytespp
          /\ \A q \in 0..(c.run_length - 1) :
                 PixelRun(img, first + q, 1) = Tail(c.bytes)

\* C17: the RLE body of a written file is the runs of unload_rle_data in
\* order; the runs partition the pixels, each has 1 to 128 pixels, a raw run
\* is the header runLength-1 (< 128) and its pixels' bytes, a packet is the
\* header runLength+127 (>= 128) and one pixel that every pixel of the run
\* equals, and the run lengths sum to width*height.
RleFraming ==
    (op = "write_tga_file" /\ file[3] \in {10, 11}
        /\ Len(src.data) = src.width * src.height * src.bytespp) =>
        LET cs == RleChunks(src, 0)
        IN  /\ SubSeq(file, HeaderSize + 1, Len(file) - Len(Footer)) = ConcatBytes(cs, 1)
            /\ \A k \in 1..Len(cs) : Framed(src, cs[k], RunSum(cs, k - 1))
            /\ RunSum(cs, Len(cs)) = src.width * src.height

\* C17 witness: a written RLE file whose runs are a packet of 128 pixels, a
\* raw run of 128 pixels and a last raw run of one pixel
RleFramingWitness ==
    /\ op = "write_tga_file" /\ file[3] = 10 /\ bytespp = 4
    /\ LET cs == RleChunks(src, 0)
       IN  /\ Len(cs) = 3
           /\ ~cs[1].raw /\ cs[1].run_length = MAX_CHUNK_LENGTH
           /\ cs[2].raw /\ cs[2].run_length = MAX_CHUNK_LENGTH
           /\ cs[3].raw /\ cs[3].run_length = 1

\* C18: a line from a point to itself sets that one pixel when the point is
\* inside the canvas and no other pixel, under Level0, Level1 and Level2.
SinglePointLine ==
    (op = "draw_line" /\ args.t0 = args.t1) =>
        Touched(Self) = {<<args.t0.x, args.t0.y>>} \cap Pixels(width, height)

\* the vertices of the last draw_triangle call, and their texture
\* coordinates, in the order of the call
CallVertices == <<args.t0, args.t1, args.t2>>
CallUVs == <<args.uv0, args.uv1, args.uv2>>

\* the sorted vertices v are the vertices of the call, the one at position k
\* being the vertex whose number, carried in place of its texture
\* coordinate, is n[k]; uv holds the texture coordinates of the same vertices
PairedWith(v, n, uv) ==
    /\ {n[k] : k \in 1..3} = {1, 2, 3}
    /\ \A k \in 1..3 : v[k] = CallVertices[n[k]] /\ uv[k] = CallUVs[n[k]]

\* C19: for every triangle that passes the all-y-equal test, the swaps leave
\* t0.y <= t1.y <= t2.y with each vertex paired with its own texture
\* coordinate, total_height is positive, the segment_height of every
\* scanline is non-zero, and the call does not return DivisionByZero.
NoDivisionByZero ==
    (op = "draw_triangle" /\ ~Degenerate(args.t0, args.t1, args.t2)) =>
        LET v == SortByY(args.t0, args.t1, args.t2, args.uv0, args.uv1, args.uv2)
            n == SortByY(args.t0, args.t1, args.t2, 1, 2, 3)
        IN  /\ v.t[1].y <= v.t[2].y /\ v.t[2].y <= v.t[3].y
            /\ n.t = v.t
            /\ PairedWith(v.t, n.uv, v.uv)
            /\ v.t[3].y - v.t[1].y > 0
            /\ \A i \in 0..(v.t[3].y - v.t[1].y - 1) : SegmentHeight(v, i) # 0
            /\ ~(ret.kind = "Err" /\ ret.err = "DivisionByZero")

\* C19 witness: a filled triangle given highest vertex first, whose other
\* two vertices are level, so that two swaps happen and every scanline is
\* in the second half
NoDivisionByZeroWitness ==
    /\ op = "draw_triangle" /\ ret.kind = "Ok"
    /\ args.t0.y > args.t1.y /\ args.t1.y = args.t2.y
    /\ SortByY(args.t0, args.t1, args.t2, 1, 2, 3).uv = <<2, 3, 1>>
    /\ Touched(Self) # {}

\* C20: on every canvas, square or not, each z-buffer access zbuffer[x][y]
\* of a triangle whose vertices are on the canvas is inside the z-buffer of
\* height+1 rows of width+1 entries that render_model allocates, so the call
\* does not panic, and distinct pixels have distinct entries.
ZbufferAccessInBounds ==
    (op = "draw_triangle" /\ {args.t0, args.t1, args.t2} \subseteq
            {Vec3i_new(p[1], p[2], args.t0.z) : p \in Pixels(width, height)}) =>
        /\ ret.kind # "panic"
        /\ Len(zbuffer) = height + 1
        /\ \A u \in Visits(args) :
              /\ u.p[1] \in 0..(Len(zbuffer) - 1)
              /\ u.p[2] \in 0..(Len(zbuffer[u.p[1] + 1]) - 1)
        /\ \A u, w \in Visits(args) :
              u.p # w.p => <<u.p[1] + 1, u.p[2] + 1>> # <<w.p[1] + 1, w.p[2] + 1>>

====
